---- MODULE Spec2Model ----
(***************************************************************************)
(* Duck Machine DM2020W CPU (src/cpu.py): the arithmetic/logic unit, the   *)
(* register file, the fetch-decode-execute step and the run loop.          *)
(*                                                                         *)
(* The collaborators cpu.py imports (instr_format, memory, register) are   *)
(* modelled from their documented contract.                                *)
(***************************************************************************)
EXTENDS Integers, Sequences, FiniteSets, TLC

(***************************************************************************)
(* Bounds of the model.                                                    *)
(***************************************************************************)
\* Number of words of the memory the CPU is connected to (addresses 0..MemSize-1).
MemSize == 3
\* Largest absolute value of an ALU operand or result that a step is explored with.
MaxVal == 5
\* Largest absolute value of an operand handed to ALU.exec in SpecALU.
MaxOperand == 4
\* Largest number of steps one call of run is followed for.
MaxSteps == 4
\* Width in bits of the signed machine word the ALU's results are measured
\* against in SpecALU (the code itself works on unbounded integers).
WordBits == 4

(***************************************************************************)
(* instr_format: CondFlag, OpCode, Instruction, decode (collaborator).     *)
(***************************************************************************)
\* CondFlag: one bit per flag, ALWAYS is the union of the four, NEVER is no bit.
CondFlag == [NEVER |-> 0, M |-> 1, Z |-> 2, P |-> 4, V |-> 8, ALWAYS |-> 15]

\* The flags a CPU's condition can be.
CondFlagValues == {CondFlag.M, CondFlag.Z, CondFlag.P, CondFlag.V, CondFlag.ALWAYS}

\* OpCode: the numeric code of each operation in an instruction word. EXTRA
\* stands for an operation code of OpCode that ALU_OPS has no entry for.
OpCode == [HALT |-> 0, LOAD |-> 1, STORE |-> 2, ADD |-> 3, EXTRA |-> 4,
           SUB |-> 5, MUL |-> 6, DIV |-> 7]

OpNames == {"HALT", "LOAD", "STORE", "ADD", "EXTRA", "SUB", "MUL", "DIV"}

\* Bitwise and of two naturals below 2^bits (Flag.__and__ on the flag values).
RECURSIVE BitAndN(_, _, _)
BitAndN(a, b, bits) ==
    IF bits = 0 THEN 0
    ELSE (IF a % 2 = 1 /\ b % 2 = 1 THEN 1 ELSE 0)
         + 2 * BitAndN(a \div 2, b \div 2, bits - 1)

BitAnd(a, b) == BitAndN(a, b, 4)

\* Instruction word layout: reserved bit 31, op 26..30, cond 22..25,
\* reg_target 18..21, reg_src1 14..17, reg_src2 10..13, signed offset 0..9.
encode(instr) ==
    OpCode[instr.op] * (2 ^ 26) + instr.cond * (2 ^ 22)
    + instr.reg_target * (2 ^ 18) + instr.reg_src1 * (2 ^ 14)
    + instr.reg_src2 * (2 ^ 10) + (instr.offset % (2 ^ 10))

\* The op field of a word.
OpField(word) == word \div (2 ^ 26)

\* decode fails for a word whose reserved bit is set (a negative word) or whose
\* op field is no OpCode.
Decodable(word) ==
    /\ word >= 0
    /\ \E name \in OpNames : OpCode[name] = OpField(word)

decode(word) ==
    [op         |-> CHOOSE name \in OpNames : OpCode[name] = OpField(word),
     cond       |-> (word \div (2 ^ 22)) % 16,
     reg_target |-> (word \div (2 ^ 18)) % 16,
     reg_src1   |-> (word \div (2 ^ 14)) % 16,
     reg_src2   |-> (word \div (2 ^ 10)) % 16,
     offset     |-> IF word % (2 ^ 10) >= 2 ^ 9
                    THEN (word % (2 ^ 10)) - 2 ^ 10
                    ELSE word % (2 ^ 10)]

Instr(op, cond, target, src1, src2, offset) ==
    [op |-> op, cond |-> cond, reg_target |-> target, reg_src1 |-> src1,
     reg_src2 |-> src2, offset |-> offset]

(***************************************************************************)
(* register: Register and ZeroRegister (collaborator).                     *)
(***************************************************************************)
RegIndex == 0 .. 15

\* CPU.__init__: slot 0 is a ZeroRegister, slots 1..15 are Registers.
RegisterKindNoZero(i) == "Register"

RegisterKind(i) == IF i = 0 THEN "ZeroRegister" ELSE "Register"

\* Register.get / ZeroRegister.get
RegGet(regs, i) == IF RegisterKind(i) = "ZeroRegister" THEN 0 ELSE regs[i]

\* Register.put / ZeroRegister.put
RegPut(regs, i, v) ==
    IF RegisterKind(i) = "ZeroRegister" THEN regs ELSE [regs EXCEPT ![i] = v]

(***************************************************************************)
(* memory: Memory.get(address), Memory.put(value, address) (collaborator). *)
(***************************************************************************)
Address == 0 .. (MemSize - 1)

\* Both get and put fail for an address that is negative or beyond the size.
MemInRange(address) == address \in Address

MemGet(mem, address) == mem[address]

\* put(value, address): the first argument is the value, the second the address.
MemPut(mem, value, address) == [mem EXCEPT ![address] = value]

(***************************************************************************)
(* ALU                                                                     *)
(***************************************************************************)
\* The quotient rounded toward zero.
TruncDiv(x, y) ==
    IF (x >= 0) = (y > 0)
    THEN (IF x >= 0 THEN x ELSE 0 - x) \div (IF y > 0 THEN y ELSE 0 - y)
    ELSE 0 - ((IF x >= 0 THEN x ELSE 0 - x) \div (IF y > 0 THEN y ELSE 0 - y))

\* Python's x // y: the quotient rounded toward negative infinity.
FloorDiv(x, y) == IF y > 0 THEN x \div y ELSE (0 - x) \div (0 - y)

\* The keys of ALU.ALU_OPS.
ALU_KEYS == {"ADD", "SUB", "MUL", "DIV", "LOAD", "STORE", "HALT"}

\* ALU.ALU_OPS[op](x, y); DIV is applied only with y # 0 (see exec).
ALU_OPS(op, x, y) ==
    CASE op = "ADD"   -> x + y
      [] op = "SUB"   -> x - y
      [] op = "MUL"   -> x * y
      [] op = "DIV"   -> FloorDiv(x, y)
      [] op = "LOAD"  -> x + y
      [] op = "STORE" -> x + y
      [] op = "HALT"  -> 0

\* The flag exec derives from a result.
FlagOfNoZ(result) == IF result < 0 THEN CondFlag.M ELSE CondFlag.P

FlagOf(result) ==
    IF result = 0 THEN CondFlag.Z
    ELSE IF result < 0 THEN CondFlag.M
    ELSE CondFlag.P

\* What exec returns when the lambda raises ZeroDivisionError.
ZeroDivisionResultBad == <<0, CondFlag.Z>>

ZeroDivisionResult == <<0, CondFlag.V>>

\* ALU.exec(op, in1, in2) for op in ALU_OPS: <<result, flag>>. For an op that
\* is no key of ALU_OPS the lookup raises KeyError, which exec does not catch
\* (see ALURaises).
ALU_exec(op, in1, in2) ==
    IF op = "DIV" /\ in2 = 0
    THEN ZeroDivisionResult
    ELSE <<ALU_OPS(op, in1, in2), FlagOf(ALU_OPS(op, in1, in2))>>

\* The lookup ALU.ALU_OPS[op] (line 47) raises KeyError for an op that is no key.
ALURaisesNever(op) == FALSE

ALURaises(op) == op \notin ALU_KEYS

(***************************************************************************)
(* CPU                                                                     *)
(***************************************************************************)
VARIABLES
    registers,  \* self.registers: the content of the 16 register slots
    memory,     \* self.memory: the words of the memory the CPU is connected to
    condition,  \* self.condition: a CondFlag value
    halted,     \* self.halted
    mode,       \* "idle": no call in progress; "running": inside run()'s loop
    alu,        \* the last call of ALU.exec: its arguments and what it returned
    last        \* the last operation: its kind, its argument, the CPU state it
                \* started from and the error it raised, if any

vars == <<registers, memory, condition, halted, mode, alu, last>>

NoError == "none"

\* The CPU state a step reads and writes.
CPUState == [registers |-> registers, memory |-> memory,
             condition |-> condition, halted |-> halted]

NoALU == [op |-> "none", in1 |-> 0, in2 |-> 0, result |-> 0, flag |-> 0]

ALUCall(op, in1, in2) ==
    [op |-> op, in1 |-> in1, in2 |-> in2,
     result |-> ALU_exec(op, in1, in2)[1], flag |-> ALU_exec(op, in1, in2)[2]]

\* step, line 100: the instruction executes iff its mask intersects the flag.
CondSatisfiedAlways(instr, cond) == TRUE

CondSatisfied(instr, cond) == BitAnd(instr.cond, cond) > 0

\* step, lines 101-102: the operands, read before the program counter moves.
LeftAfterAdvance(s, instr) ==
    RegGet(RegPut(s.registers, 15, RegGet(s.registers, 15) + 1), instr.reg_src1)

Left(s, instr) == RegGet(s.registers, instr.reg_src1)

RightNoOffset(s, instr) == RegGet(s.registers, instr.reg_src2)

Right(s, instr) == RegGet(s.registers, instr.reg_src2) + instr.offset

\* step, lines 103-104 and 119-120: the program counter moves to the next word.
AdvancePCNot(regs) == regs

AdvancePC(regs) == RegPut(regs, 15, RegGet(regs, 15) + 1)

\* The outcome of a step: the CPU state it leaves, the error it raised and
\* the ALU call it made.
Outcome(regs, mem, cond, halt, error, call) ==
    [registers |-> regs, memory |-> mem, condition |-> cond, halted |-> halt,
     error |-> error, alu |-> call]

\* step, lines 106-108: ADD, SUB, MUL, DIV write the result to the target
\* and set the flag.
ExecArithNoFlag(s, instr, regs, call) ==
    Outcome(RegPut(regs, instr.reg_target, call.result), s.memory, s.condition,
            s.halted, NoError, call)

ExecArith(s, instr, regs, call) ==
    Outcome(RegPut(regs, instr.reg_target, call.result), s.memory, call.flag,
            s.halted, NoError, call)

\* step, lines 109-111: memory.put(value, registers[reg_target].get()), with
\* Memory.put(value, address).
\* A STORE that also writes the ALU's result to the target register, as the
\* arithmetic branch does.
ExecStoreWritesTarget(s, instr, regs, call) ==
    IF MemInRange(RegGet(regs, instr.reg_target))
    THEN Outcome(RegPut(regs, instr.reg_target, call.result),
                 MemPut(s.memory, call.result, RegGet(regs, instr.reg_target)),
                 call.flag, s.halted, NoError, call)
    ELSE Outcome(regs, s.memory, s.condition, s.halted, "AddressError", call)

ExecStore(s, instr, regs, call) ==
    IF MemInRange(RegGet(regs, instr.reg_target))
    THEN Outcome(regs,
                 MemPut(s.memory, call.result, RegGet(regs, instr.reg_target)),
                 call.flag, s.halted, NoError, call)
    ELSE Outcome(regs, s.memory, s.condition, s.halted, "AddressError", call)

\* step, lines 112-115: the word at address value goes to the target; the
\* flag is the one exec returned for the address.
ExecLoadFlagOfWord(s, instr, regs, call) ==
    IF MemInRange(call.result)
    THEN Outcome(RegPut(regs, instr.reg_target, MemGet(s.memory, call.result)),
                 s.memory, FlagOf(MemGet(s.memory, call.result)), s.halted,
                 NoError, call)
    ELSE Outcome(regs, s.memory, s.condition, s.halted, "AddressError", call)

\* A failing memory.get undone: the registers as they were before the step.
ExecLoadRestored(s, instr, regs, call) ==
    IF MemInRange(call.result)
    THEN Outcome(RegPut(regs, instr.reg_target, MemGet(s.memory, call.result)),
                 s.memory, call.flag, s.halted, NoError, call)
    ELSE Outcome(s.registers, s.memory, s.condition, s.halted, "AddressError",
                 call)

ExecLoad(s, instr, regs, call) ==
    IF MemInRange(call.result)
    THEN Outcome(RegPut(regs, instr.reg_target, MemGet(s.memory, call.result)),
                 s.memory, call.flag, s.halted, NoError, call)
    ELSE Outcome(regs, s.memory, s.condition, s.halted, "AddressError", call)

\* step, lines 116-117
ExecHaltNot(s, instr, regs, call) ==
    Outcome(regs, s.memory, s.condition, s.halted, NoError, call)

ExecHalt(s, instr, regs, call) ==
    Outcome(regs, s.memory, s.condition, TRUE, NoError, call)

\* step, lines 105-117: the ALU call and the effect of the operation, on the
\* register file regs.
ExecuteOn(s, instr, regs) ==
    LET call == ALUCall(instr.op, Left(s, instr), Right(s, instr))
    IN  IF ALURaises(instr.op)
        THEN Outcome(regs, s.memory, s.condition, s.halted, "KeyError", NoALU)
        ELSE CASE instr.op \in {"ADD", "SUB", "MUL", "DIV"} ->
                      ExecArith(s, instr, regs, call)
               [] instr.op = "STORE" -> ExecStore(s, instr, regs, call)
               [] instr.op = "LOAD"  -> ExecLoad(s, instr, regs, call)
               [] instr.op = "HALT"  -> ExecHalt(s, instr, regs, call)
               [] OTHER -> Outcome(regs, s.memory, s.condition, s.halted,
                                   NoError, NoALU)

\* The program counter moved after the operation instead of before it.
ExecutePCAfter(s, instr) ==
    [ExecuteOn(s, instr, s.registers) EXCEPT
        !.registers = AdvancePC(ExecuteOn(s, instr, s.registers).registers)]

\* step, lines 101-117: the instruction executes. The operands are read, the
\* program counter moves, then the operation acts.
Execute(s, instr) == ExecuteOn(s, instr, AdvancePC(s.registers))

\* step, lines 118-120: the instruction is skipped.
Skip(s) ==
    Outcome(AdvancePC(s.registers), s.memory, s.condition, s.halted, NoError,
            NoALU)

\* step, lines 90-94: a failing fetch or decode comes before any write.
RaiseAdvanced(s, error) ==
    Outcome(AdvancePC(s.registers), s.memory, s.condition, s.halted, error,
            NoALU)

Raise(s, error) ==
    Outcome(s.registers, s.memory, s.condition, s.halted, error, NoALU)

\* CPU.step from CPU state s.
step(s) ==
    LET address == RegGet(s.registers, 15)
    IN  IF ~MemInRange(address) THEN Raise(s, "AddressError")
        ELSE IF ~Decodable(MemGet(s.memory, address))
             THEN Raise(s, "DecodeError")
        ELSE LET instr == decode(MemGet(s.memory, address))
             IN  IF CondSatisfied(instr, s.condition)
                 THEN Execute(s, instr)
                 ELSE Skip(s)

(***************************************************************************)
(* The part of the behaviour that is explored: Python integers are         *)
(* unbounded, so a step whose ALU operands or result leave -MaxVal..MaxVal *)
(* is not taken.                                                           *)
(***************************************************************************)
Within(v) == (0 - MaxVal) <= v /\ v <= MaxVal

Explored(s) ==
    LET address == RegGet(s.registers, 15)
    IN  (MemInRange(address) /\ Decodable(MemGet(s.memory, address))) =>
        LET instr == decode(MemGet(s.memory, address))
        IN  (CondSatisfied(instr, s.condition) /\ instr.op \in ALU_KEYS) =>
            /\ Within(Left(s, instr))
            /\ Within(RegGet(s.registers, instr.reg_src2))
            /\ Within(Right(s, instr))
            /\ Within(ALU_exec(instr.op, Left(s, instr), Right(s, instr))[1])

(***************************************************************************)
(* The programs the memory is loaded with before the CPU is used.          *)
(***************************************************************************)
HaltWord == encode(Instr("HALT", CondFlag.ALWAYS, 0, 0, 0, 0))

\* Instructions under test, at address 0.
TestInstrs ==
    {Instr(op, c, t, s1, s2, k) :
        op \in OpNames,
        c \in {CondFlag.ALWAYS, CondFlag.Z, CondFlag.P, CondFlag.V},
        t \in {0, 1, 15}, s1 \in {1, 15}, s2 \in {0, 1}, k \in {0 - 1, 0, 1}}

\* Instructions under test whose second source is the program counter.
PCSourceInstrs ==
    {Instr(op, CondFlag.ALWAYS, t, s1, 15, k) :
        op \in {"ADD", "SUB", "LOAD", "STORE"},
        t \in {1, 15}, s1 \in {0, 15}, k \in {0, 1}}

\* Instructions that prepare the registers and the flag, at address 1.
SetupInstrs ==
    {Instr("HALT", CondFlag.ALWAYS, 0, 0, 0, 0),
     Instr("ADD", CondFlag.ALWAYS, 1, 1, 0, 0 - 1),
     Instr("HALT", CondFlag.Z, 0, 0, 0, 0),
     Instr("DIV", CondFlag.ALWAYS, 1, 15, 1, 0)}

\* Scenario A: ADD r1 = r0 + (r0 + 5) under ALWAYS at address 0, then HALT.
ScenarioA ==
    [a \in Address |->
        IF a = 0 THEN encode(Instr("ADD", CondFlag.ALWAYS, 1, 0, 0, 5))
        ELSE HaltWord]

Programs ==
    {[a \in Address |-> IF a = 0 THEN encode(t)
                        ELSE IF a = 1 THEN encode(u) ELSE HaltWord] :
        t \in TestInstrs \cup PCSourceInstrs, u \in SetupInstrs}
    \cup {ScenarioA}

(***************************************************************************)
(* The state machine                                                       *)
(***************************************************************************)
\* run's from_addr and step_count (lines 122, 126, 131) when no run is known.
NoRun == [from_addr |-> 0 - 1, step_count |-> 0]

\* run's from_addr and step_count after the operation call: set by the call of
\* run, counted up by each step of its loop, kept as run returns.
RunInfo(call, arg) ==
    IF call = "run" THEN [from_addr |-> arg, step_count |-> 0]
    ELSE IF call = "step" /\ mode = "running"
         THEN [last.run EXCEPT !.step_count = last.run.step_count + 1]
    ELSE IF call = "return" THEN last.run
    ELSE NoRun

Last(call, arg, error) ==
    [call |-> call, arg |-> arg, pre |-> CPUState, mode |-> mode,
     error |-> error, run |-> RunInfo(call, arg)]

\* CPU.__init__, lines 75-85, on a memory loaded with a program.
Init ==
    /\ registers = [i \in RegIndex |-> 0]
    /\ memory \in Programs
    /\ condition = CondFlag.ALWAYS
    /\ halted = FALSE
    /\ mode = "idle"
    /\ alu = NoALU
    /\ last = [call |-> "init", arg |-> 0,
               pre |-> [registers |-> [i \in RegIndex |-> 0], memory |-> memory,
                        condition |-> CondFlag.ALWAYS, halted |-> FALSE],
               mode |-> "idle", error |-> NoError, run |-> NoRun]

\* The effect of one call of step on the variables.
DoStep ==
    LET out == step(CPUState)
    IN  /\ Explored(CPUState)
        /\ registers' = out.registers
        /\ memory' = out.memory
        /\ condition' = out.condition
        /\ halted' = out.halted
        /\ alu' = out.alu
        /\ last' = Last("step", 0, out.error)
        /\ mode' = IF out.error = NoError THEN mode ELSE "idle"

\* A run that also puts the condition flag back to ALWAYS, as __init__ does.
RunCallResetsFlag(from_addr) ==
    /\ mode = "idle"
    /\ halted' = FALSE
    /\ registers' = RegPut(registers, 15, from_addr)
    /\ condition' = CondFlag.ALWAYS
    /\ mode' = "running"
    /\ last' = Last("run", from_addr, NoError)
    /\ UNCHANGED <<memory, alu>>

\* run, lines 124-126: the call of run(from_addr) up to its loop.
RunCall(from_addr) ==
    /\ mode = "idle"
    /\ halted' = FALSE
    /\ registers' = RegPut(registers, 15, from_addr)
    /\ mode' = "running"
    /\ last' = Last("run", from_addr, NoError)
    /\ UNCHANGED <<memory, condition, alu>>

\* run, line 127: the loop's condition.
RunLoopGuardTrue == TRUE

RunLoopGuard == ~halted

\* run, lines 127-131: one iteration of the loop.
RunStep ==
    /\ mode = "running"
    /\ RunLoopGuard
    /\ last.run.step_count < MaxSteps
    /\ DoStep

\* run, line 127: the loop ends and run returns.
RunReturn ==
    /\ mode = "running"
    /\ ~RunLoopGuard
    /\ mode' = "idle"
    /\ last' = Last("return", 0, NoError)
    /\ UNCHANGED <<registers, memory, condition, halted, alu>>

\* A caller's own call of step().
StepCall ==
    /\ mode = "idle"
    /\ DoStep

Next ==
    \/ \E from_addr \in 0 .. MemSize : RunCall(from_addr)
    \/ RunStep
    \/ RunReturn
    \/ StepCall

Spec == Init /\ [][Next]_vars

(***************************************************************************)
(* ALU.exec called on its own: the inputs are drawn, then exec is applied. *)
(***************************************************************************)
Operands == (0 - MaxOperand) .. MaxOperand

InitALU ==
    /\ registers = [i \in RegIndex |-> 0]
    /\ memory = [a \in Address |-> HaltWord]
    /\ condition = CondFlag.ALWAYS
    /\ halted = FALSE
    /\ mode = "exec"
    /\ \E op \in ALU_KEYS, in1 \in Operands, in2 \in Operands :
          alu = [op |-> op, in1 |-> in1, in2 |-> in2, result |-> 0, flag |-> 0]
    /\ last = [call |-> "init", arg |-> 0,
               pre |-> [registers |-> [i \in RegIndex |-> 0], memory |-> memory,
                        condition |-> CondFlag.ALWAYS, halted |-> FALSE],
               mode |-> "exec", error |-> NoError, run |-> NoRun]

\* exec, lines 44-55, on the drawn inputs.
ALUExec ==
    /\ mode = "exec"
    /\ alu' = ALUCall(alu.op, alu.in1, alu.in2)
    /\ mode' = "idle"
    /\ last' = Last("exec", 0, NoError)
    /\ UNCHANGED <<registers, memory, condition, halted>>

NextALU == ALUExec

SpecALU == InitALU /\ [][NextALU]_vars

(***************************************************************************)
(* Vocabulary of the properties: the last operation, seen from the state   *)
(* it started from (last.pre) and the state it left (the variables).       *)
(***************************************************************************)
\* The address the last step fetched from.
PreAddr == RegGet(last.pre.registers, 15)

\* The last operation was a step that fetched and decoded an instruction.
Fetched ==
    /\ last.call = "step"
    /\ MemInRange(PreAddr)
    /\ Decodable(last.pre.memory[PreAddr])

PreInstr == decode(last.pre.memory[PreAddr])

\* The instruction's condition mask against the flag the step started with.
MaskHit == Fetched /\ BitAnd(PreInstr.cond, last.pre.condition) # 0

MaskMiss == Fetched /\ BitAnd(PreInstr.cond, last.pre.condition) = 0

\* The operands as the registers held them before the step.
PreLeft == RegGet(last.pre.registers, PreInstr.reg_src1)

PreRight == RegGet(last.pre.registers, PreInstr.reg_src2) + PreInstr.offset

\* The step completed: it raised no error.
Completed == last.error = NoError

PC == RegGet(registers, 15)

\* Registers 0..14 read as they did before the last operation.
LowRegistersKept ==
    \A i \in 0 .. 14 : RegGet(registers, i) = RegGet(last.pre.registers, i)

ArithOps == {"ADD", "SUB", "MUL", "DIV"}

ResultFlags == {CondFlag.Z, CondFlag.M, CondFlag.P, CondFlag.V}

(***************************************************************************)
(* C1                                                                      *)
(***************************************************************************)
\* C1: a step whose instruction's condition mask does not intersect the flag
\* leaves registers 0-14, memory, the flag and halted unchanged and the
\* program counter at its previous value plus 1, whatever the operation is.
C1_SkipFrame ==
    MaskMiss =>
        /\ Completed
        /\ LowRegistersKept
        /\ memory = last.pre.memory
        /\ condition = last.pre.condition
        /\ halted = last.pre.halted
        /\ PC = PreAddr + 1

\* A DIV by zero that was skipped, under a flag other than ALWAYS.
C1_Witness ==
    /\ MaskMiss
    /\ PreInstr.op = "DIV"
    /\ PreRight = 0
    /\ last.pre.condition = CondFlag.M
    /\ PC = PreAddr + 1

(***************************************************************************)
(* C2                                                                      *)
(***************************************************************************)
\* C2 as stated: an executed HALT sets halted and leaves every register,
\* the program counter included, memory and the flag unchanged.
C2_HaltKeepsAllRegisters ==
    (MaskHit /\ PreInstr.op = "HALT") =>
        /\ halted
        /\ \A i \in RegIndex : RegGet(registers, i) = RegGet(last.pre.registers, i)
        /\ memory = last.pre.memory
        /\ condition = last.pre.condition

\* C2 amended: an executed HALT sets halted, leaves registers 0-14, memory and
\* the flag unchanged, and leaves the program counter at the fetch address + 1.
C2_HaltFrame ==
    (MaskHit /\ PreInstr.op = "HALT") =>
        /\ Completed
        /\ halted
        /\ LowRegistersKept
        /\ PC = PreAddr + 1
        /\ memory = last.pre.memory
        /\ condition = last.pre.condition

\* A HALT that executed under a flag its mask names, from the running state.
C2_Witness ==
    /\ MaskHit
    /\ PreInstr.op = "HALT"
    /\ PreInstr.cond = CondFlag.Z
    /\ ~last.pre.halted
    /\ halted

(***************************************************************************)
(* C3                                                                      *)
(***************************************************************************)
\* C3: after an executed STORE with address = registers[reg_src1] +
\* registers[reg_src2] + offset, memory[address] is what the target register
\* held before the step, no other cell has changed, and the flag is Z, M or P
\* by the sign of the address.
C3_StoreConvention ==
    (MaskHit /\ PreInstr.op = "STORE" /\ Completed
        /\ MemInRange(PreLeft + PreRight)) =>
        /\ memory[PreLeft + PreRight]
              = RegGet(last.pre.registers, PreInstr.reg_target)
        /\ \A a \in Address :
              a # PreLeft + PreRight => memory[a] = last.pre.memory[a]
        /\ (condition = CondFlag.Z) = (PreLeft + PreRight = 0)
        /\ (condition = CondFlag.M) = (PreLeft + PreRight < 0)
        /\ (condition = CondFlag.P) = (PreLeft + PreRight > 0)

(***************************************************************************)
(* C4                                                                      *)
(***************************************************************************)
\* exec has returned from a call with one of the six operations.
ALUReturned ==
    /\ last.call = "exec"
    /\ alu.op \in {"ADD", "SUB", "MUL", "DIV", "LOAD", "STORE"}

FlagBySign ==
    /\ (alu.flag = CondFlag.Z) = (alu.result = 0)
    /\ (alu.flag = CondFlag.M) = (alu.result < 0)
    /\ (alu.flag = CondFlag.P) = (alu.result > 0)
    /\ alu.flag \in {CondFlag.Z, CondFlag.M, CondFlag.P}

\* C4 as stated: for every one of the six operations and all operands the
\* flag is Z iff the result is 0, M iff it is negative, P iff it is positive.
C4_FlagBySignAlways == ALUReturned => FlagBySign

\* C4 amended: the same, for every call other than a DIV whose second operand
\* is 0; that call returns result 0 with flag V.
C4_FlagBySign ==
    ALUReturned =>
        IF alu.op = "DIV" /\ alu.in2 = 0
        THEN alu.result = 0 /\ alu.flag = CondFlag.V
        ELSE FlagBySign

\* A division of negative by positive that returned a negative result and M.
C4_Witness ==
    /\ ALUReturned
    /\ alu.op = "DIV"
    /\ alu.in1 < 0
    /\ alu.in2 > 1
    /\ alu.result < 0
    /\ alu.flag = CondFlag.M

(***************************************************************************)
(* C5                                                                      *)
(***************************************************************************)
\* The last step executed a DIV whose divisor registers[reg_src2] + offset
\* was 0.
DivByZeroStep == MaskHit /\ PreInstr.op = "DIV" /\ PreRight = 0

\* What exec returned to that step: (0, V).
DivByZeroReturn ==
    alu = [op |-> "DIV", in1 |-> PreLeft, in2 |-> 0, result |-> 0,
           flag |-> CondFlag.V]

\* C5 as stated: exec(DIV, x, 0) returns (0, V), and the step writes 0 to the
\* target, sets the flag to V, advances the program counter by 1, leaves
\* halted false and raises no error.
C5_DivByZeroAdvancesPC ==
    DivByZeroStep =>
        /\ DivByZeroReturn
        /\ Completed
        /\ RegGet(registers, PreInstr.reg_target) = 0
        /\ condition = CondFlag.V
        /\ PC = PreAddr + 1
        /\ ~halted

\* C5 amended: the same, except that the program counter is the fetch
\* address + 1 only when the target is not register 15 (it is the written 0
\* when it is), and that halted is left as it was.
C5_DivByZero ==
    DivByZeroStep =>
        /\ DivByZeroReturn
        /\ Completed
        /\ RegGet(registers, PreInstr.reg_target) = 0
        /\ condition = CondFlag.V
        /\ PC = (IF PreInstr.reg_target = 15 THEN 0 ELSE PreAddr + 1)
        /\ halted = last.pre.halted

\* A division of a nonzero register by zero that has been executed.
C5_Witness ==
    /\ DivByZeroStep
    /\ PreLeft # 0
    /\ PreInstr.reg_target = 1
    /\ RegGet(last.pre.registers, 1) # 0
    /\ condition = CondFlag.V

(***************************************************************************)
(* C6                                                                      *)
(***************************************************************************)
\* C6: register 0 reads 0 in every reachable state, and an executed ADD, SUB,
\* MUL, DIV or LOAD whose target is register 0 raises no error (a LOAD raises
\* only for an address outside the memory).
C6_RegisterZero ==
    /\ RegGet(registers, 0) = 0
    /\ (MaskHit /\ PreInstr.op \in ArithOps /\ PreInstr.reg_target = 0)
          => Completed
    /\ (MaskHit /\ PreInstr.op = "LOAD" /\ PreInstr.reg_target = 0
            /\ MemInRange(PreLeft + PreRight))
          => Completed

\* An ADD with a nonzero result has been executed with register 0 as target.
C6_Witness ==
    /\ MaskHit
    /\ PreInstr.op = "ADD"
    /\ PreInstr.reg_target = 0
    /\ alu.result # 0
    /\ Completed

(***************************************************************************)
(* C7                                                                      *)
(***************************************************************************)
\* C7: after a completed step the program counter is the written value (the
\* ALU result, or the loaded word) when the step executed ADD, SUB, MUL, DIV
\* or LOAD with target register 15, and the fetch address + 1 otherwise.
C7_PCOrder ==
    (Fetched /\ Completed) =>
        IF MaskHit /\ PreInstr.op \in ArithOps /\ PreInstr.reg_target = 15
        THEN PC = alu.result /\ alu.op = PreInstr.op
             /\ alu.in1 = PreLeft /\ alu.in2 = PreRight
        ELSE IF MaskHit /\ PreInstr.op = "LOAD" /\ PreInstr.reg_target = 15
        THEN PC = last.pre.memory[PreLeft + PreRight]
        ELSE PC = PreAddr + 1

\* An ADD into register 15 of the fetch address and 0 has been executed at
\* address 0: the program counter is the result, 0, not the fetch address + 1.
C7_Witness ==
    /\ MaskHit
    /\ Completed
    /\ PreInstr.op = "ADD"
    /\ PreInstr.reg_target = 15
    /\ PreInstr.reg_src1 = 15
    /\ PreAddr = 0
    /\ PC = 0

(***************************************************************************)
(* C8                                                                      *)
(***************************************************************************)
\* C8: halted becomes true only in a step that executes a HALT whose mask
\* intersects the flag; every other step leaves halted as it was; halted
\* becomes false again only in a call of run.
C8_Halted ==
    /\ (halted /\ ~last.pre.halted) => (MaskHit /\ PreInstr.op = "HALT")
    /\ (last.call = "step" /\ ~(MaskHit /\ PreInstr.op = "HALT"))
          => halted = last.pre.halted
    /\ (last.pre.halted /\ ~halted) => last.call = "run"

\* A HALT whose mask missed the flag was stepped over and did not halt.
C8_Witness ==
    /\ MaskMiss
    /\ PreInstr.op = "HALT"
    /\ ~last.pre.halted
    /\ ~halted

(***************************************************************************)
(* C9                                                                      *)
(***************************************************************************)
\* The last step executed ADD, SUB, MUL, DIV, LOAD or STORE to completion (a
\* step that raised did not execute its instruction).
ExecutedALUOp ==
    /\ MaskHit
    /\ PreInstr.op \in {"ADD", "SUB", "MUL", "DIV", "LOAD", "STORE"}
    /\ Completed

\* C9: the flag is ALWAYS at construction; only an executed ADD, SUB, MUL, DIV,
\* LOAD or STORE changes it, and to one of Z, M, P, V; no operation (a skipped
\* instruction, a HALT, a call of run) brings it back to ALWAYS.
C9_ConditionFlag ==
    /\ condition \in CondFlagValues
    /\ last.call = "init" => condition = CondFlag.ALWAYS
    /\ ExecutedALUOp => condition \in ResultFlags
    /\ ~ExecutedALUOp => condition = last.pre.condition
    /\ last.pre.condition # CondFlag.ALWAYS => condition # CondFlag.ALWAYS

\* The first executed arithmetic instruction of a CPU: the flag was ALWAYS and
\* is now one of Z, M, P, V.
C9_Witness ==
    /\ ExecutedALUOp
    /\ last.pre.condition = CondFlag.ALWAYS
    /\ condition = CondFlag.M

(***************************************************************************)
(* C10                                                                     *)
(***************************************************************************)
\* C10: run(from_addr) sets halted to false and the program counter to
\* from_addr and enters its loop; the loop steps only while halted is false;
\* run returns only with halted true, changing nothing as it returns.
C10_Run ==
    /\ last.call = "run" =>
          /\ ~halted
          /\ PC = last.arg
          /\ mode = "running"
          /\ LowRegistersKept
    /\ (last.call = "step" /\ last.mode = "running") => ~last.pre.halted
    /\ (last.call = "step" /\ mode = "running") => (Completed /\ last.mode = "running")
    /\ last.call = "return" =>
          /\ halted
          /\ last.mode = "running"
          /\ mode = "idle"
          /\ CPUState = last.pre

\* run has returned after its loop.
C10_Witness ==
    /\ last.call = "return"
    /\ halted
    /\ PC = MemSize

(***************************************************************************)
(* C11                                                                     *)
(***************************************************************************)
\* The last operation belongs to a call run(0) on the memory of scenario A.
InScenarioA == last.pre.memory = ScenarioA /\ last.run.from_addr = 0

\* C11: on the memory of scenario A, run(0) takes exactly two steps: the first
\* leaves register 1 = 5 and flag P, the second halts, and run returns with
\* register 1 = 5, flag P and halted true.
C11_ScenarioA ==
    InScenarioA =>
        /\ memory = ScenarioA
        /\ last.run.step_count <= 2
        /\ last.call = "step" => Completed
        /\ (last.call = "step" /\ last.run.step_count = 1) =>
              /\ RegGet(registers, 1) = 5
              /\ condition = CondFlag.P
              /\ ~halted
              /\ mode = "running"
        /\ (last.call = "step" /\ last.run.step_count = 2) =>
              /\ RegGet(registers, 1) = 5
              /\ condition = CondFlag.P
              /\ halted
              /\ mode = "running"
        /\ last.call = "return" =>
              /\ last.run.step_count = 2
              /\ RegGet(registers, 1) = 5
              /\ condition = CondFlag.P
              /\ halted

\* run(0) has returned on the memory of scenario A after its two steps.
C11_Witness ==
    /\ InScenarioA
    /\ last.call = "return"
    /\ last.run.step_count = 2
    /\ RegGet(registers, 1) = 5
    /\ PC = 2

(***************************************************************************)
(* C12                                                                     *)
(***************************************************************************)
\* The last step reached its execute phase with an operation code that is
\* none of ADD, SUB, MUL, DIV, LOAD, STORE, HALT.
UnsupportedStep ==
    /\ MaskHit
    /\ PreInstr.op \notin {"ADD", "SUB", "MUL", "DIV", "LOAD", "STORE", "HALT"}

\* C12 as stated: such a step fails with an error that reaches the caller and
\* ends run's loop; no operation is performed in its place, and the target
\* register, memory, the flag and halted are as before the step.
C12_UnsupportedKeepsTarget ==
    UnsupportedStep =>
        /\ last.error # NoError
        /\ mode = "idle"
        /\ alu = NoALU
        /\ RegGet(registers, PreInstr.reg_target)
              = RegGet(last.pre.registers, PreInstr.reg_target)
        /\ memory = last.pre.memory
        /\ condition = last.pre.condition
        /\ halted = last.pre.halted

\* C12 amended: the same, except that the program counter has been advanced
\* by 1 before the failure, so the target register is as before the step only
\* when it is not register 15.
C12_Unsupported ==
    UnsupportedStep =>
        /\ last.error # NoError
        /\ mode = "idle"
        /\ alu = NoALU
        /\ LowRegistersKept
        /\ PC = PreAddr + 1
        /\ memory = last.pre.memory
        /\ condition = last.pre.condition
        /\ halted = last.pre.halted

\* A step of run's loop has failed on an unsupported operation code whose
\* target is register 1, which held a nonzero value.
C12_Witness ==
    /\ UnsupportedStep
    /\ last.mode = "running"
    /\ mode = "idle"
    /\ last.error = "KeyError"
    /\ PreInstr.reg_target = 1
    /\ RegGet(registers, 1) # 0

(***************************************************************************)
(* C13                                                                     *)
(***************************************************************************)
\* The last step's read of memory at the program counter failed.
FetchFailed == last.call = "step" /\ ~MemInRange(PreAddr)

\* The last step fetched a word that decode rejects.
DecodeFailed ==
    /\ last.call = "step"
    /\ MemInRange(PreAddr)
    /\ ~Decodable(last.pre.memory[PreAddr])

\* C13: a step whose fetch or decode fails raises an error and leaves every
\* register, the program counter included, memory, the flag and halted as
\* they were before the step.
C13_FetchDecodeFailure ==
    (FetchFailed \/ DecodeFailed) =>
        /\ last.error = (IF FetchFailed THEN "AddressError" ELSE "DecodeError")
        /\ mode = "idle"
        /\ \A i \in RegIndex : RegGet(registers, i) = RegGet(last.pre.registers, i)
        /\ registers = last.pre.registers
        /\ memory = last.pre.memory
        /\ condition = last.pre.condition
        /\ halted = last.pre.halted

\* A step of run's loop has failed to decode a word a STORE had written.
C13_Witness ==
    /\ DecodeFailed
    /\ last.mode = "running"
    /\ last.error = "DecodeError"
    /\ PC = PreAddr

\* A step has failed to fetch from an address beyond the memory.
C13_WitnessFetch ==
    /\ FetchFailed
    /\ PreAddr = MemSize
    /\ last.error = "AddressError"

(***************************************************************************)
(* C14                                                                     *)
(***************************************************************************)
\* v fits in a signed machine word of WordBits bits.
FitsWord(v) == (0 - 2 ^ (WordBits - 1)) <= v /\ v <= 2 ^ (WordBits - 1) - 1

\* The mathematical result of ADD, SUB, MUL on the last call's operands.
ExactResult ==
    CASE alu.op = "ADD" -> alu.in1 + alu.in2
      [] alu.op = "SUB" -> alu.in1 - alu.in2
      [] alu.op = "MUL" -> alu.in1 * alu.in2

\* C14: whenever the result of ADD, SUB or MUL does not fit in a signed machine
\* word, exec returns result 0 with flag V, so the value it returns always
\* fits in a machine word.
C14_OverflowRecovered ==
    (last.call = "exec" /\ alu.op \in {"ADD", "SUB", "MUL"}) =>
        /\ FitsWord(alu.in1) /\ FitsWord(alu.in2)
        /\ ~FitsWord(ExactResult) => (alu.result = 0 /\ alu.flag = CondFlag.V)
        /\ FitsWord(alu.result)

(***************************************************************************)
(* C15                                                                     *)
(***************************************************************************)
\* The address of the last step's LOAD or STORE: registers[reg_src1] +
\* registers[reg_src2] + offset, from the registers as they were before it.
PreAddress == PreLeft + PreRight

\* The last step executed a LOAD from an address inside the memory.
LoadStep == MaskHit /\ PreInstr.op = "LOAD" /\ MemInRange(PreAddress)

\* C15: an executed LOAD puts the word at the computed address into the target
\* register (register 0 discards it), leaves memory unchanged and sets the
\* flag by the sign of the address, whatever the loaded word is.
C15_Load ==
    LoadStep =>
        /\ Completed
        /\ RegGet(registers, PreInstr.reg_target)
              = (IF PreInstr.reg_target = 0 THEN 0
                 ELSE last.pre.memory[PreAddress])
        /\ memory = last.pre.memory
        /\ (condition = CondFlag.Z) = (PreAddress = 0)
        /\ (condition = CondFlag.M) = (PreAddress < 0)
        /\ (condition = CondFlag.P) = (PreAddress > 0)
        /\ halted = last.pre.halted

\* A LOAD from address 0 of a positive word into register 1: the flag is Z.
C15_Witness ==
    /\ LoadStep
    /\ PreAddress = 0
    /\ PreInstr.reg_target = 1
    /\ RegGet(registers, 1) > 0
    /\ last.pre.condition = CondFlag.M
    /\ condition = CondFlag.Z

(***************************************************************************)
(* C16                                                                     *)
(***************************************************************************)
\* The last step executed ADD, SUB, MUL or DIV, the divisor of a DIV not 0.
ArithStep ==
    /\ MaskHit
    /\ PreInstr.op \in ArithOps
    /\ ~(PreInstr.op = "DIV" /\ PreRight = 0)

\* q is floor(x / y): the remainder x - q * y lies between 0 and y.
IsFloorQuotient(q, x, y) ==
    /\ y > 0 => (0 <= x - q * y /\ x - q * y < y)
    /\ y < 0 => (y < x - q * y /\ x - q * y <= 0)

\* v is the result of the operation on the operands left and right.
IsArithResult(op, v, left, right) ==
    /\ op = "ADD" => v = left + right
    /\ op = "SUB" => v = left - right
    /\ op = "MUL" => v = left * right
    /\ op = "DIV" => IsFloorQuotient(v, left, right)

\* C16: an executed ADD, SUB, MUL or DIV (divisor not 0) computes left + right,
\* left - right, left * right or floor(left / right) from left =
\* registers[reg_src1] and right = registers[reg_src2] + offset, puts it into
\* the target register (register 0 discards it) and sets the flag to Z, M or P
\* by its sign; memory and halted are unchanged.
C16_Arith ==
    ArithStep =>
        /\ Completed
        /\ IsArithResult(PreInstr.op, alu.result, PreLeft, PreRight)
        /\ RegGet(registers, PreInstr.reg_target)
              = (IF PreInstr.reg_target = 0 THEN 0 ELSE alu.result)
        /\ (condition = CondFlag.Z) = (alu.result = 0)
        /\ (condition = CondFlag.M) = (alu.result < 0)
        /\ (condition = CondFlag.P) = (alu.result > 0)
        /\ memory = last.pre.memory
        /\ halted = last.pre.halted

\* A DIV of 1 by a divisor below -1 has put -1 into register 1: the quotient is
\* rounded toward negative infinity.
C16_Witness ==
    /\ ArithStep
    /\ PreInstr.op = "DIV"
    /\ PreLeft = 1
    /\ PreRight < 0 - 1
    /\ PreInstr.reg_target = 1
    /\ RegGet(registers, 1) = 0 - 1
    /\ condition = CondFlag.M

(***************************************************************************)
(* C17                                                                     *)
(***************************************************************************)
\* What source register i holds for the last step: the fetch address for
\* register 15, its content before the step otherwise.
SourceValue(i) ==
    IF i = 15 THEN PreAddr ELSE RegGet(last.pre.registers, i)

\* C17: an executed instruction hands the ALU its source registers as they
\* were at the fetch, so that register 15 as a source is the address of the
\* instruction itself; an executed ADD with target 15, reg_src1 15, reg_src2 0
\* and offset k leaves the program counter at fetch address + k.
C17_OperandsBeforeAdvance ==
    /\ (MaskHit /\ PreInstr.op \in ALU_KEYS) =>
          /\ alu.op = PreInstr.op
          /\ alu.in1 = SourceValue(PreInstr.reg_src1)
          /\ alu.in2 = SourceValue(PreInstr.reg_src2) + PreInstr.offset
    /\ (MaskHit /\ PreInstr.op = "ADD" /\ PreInstr.reg_target = 15
            /\ PreInstr.reg_src1 = 15 /\ PreInstr.reg_src2 = 0) =>
          (Completed /\ PC = PreAddr + PreInstr.offset)

\* An ADD at address 0 of register 0 and register 15 + 1 has put 1, not 2,
\* into register 1.
C17_Witness ==
    /\ MaskHit
    /\ PreInstr.op = "ADD"
    /\ PreInstr.reg_target = 1
    /\ PreInstr.reg_src1 = 0
    /\ PreInstr.reg_src2 = 15
    /\ PreInstr.offset = 1
    /\ PreAddr = 0
    /\ RegGet(registers, 1) = 1
    /\ PC = 1

(***************************************************************************)
(* C18                                                                     *)
(***************************************************************************)
\* The last step passed its condition test and then raised an error.
ExecuteFailed == MaskHit /\ ~Completed

\* C18: a step fails after its condition test passed exactly when it is a LOAD
\* from an address outside the memory, a STORE to one, or an operation code
\* missing from the ALU table; the program counter is then the fetch address
\* + 1 while registers 0-14, the flag, halted and memory are as before.
C18_ExecuteFailure ==
    /\ ExecuteFailed =>
          /\ \/ PreInstr.op = "LOAD" /\ ~MemInRange(PreAddress)
             \/ PreInstr.op = "STORE" /\ last.error = "AddressError"
             \/ PreInstr.op \notin ALU_KEYS
          /\ PC = PreAddr + 1
          /\ LowRegistersKept
          /\ condition = last.pre.condition
          /\ halted = last.pre.halted
          /\ memory = last.pre.memory
          /\ mode = "idle"
    /\ (MaskHit /\ PreInstr.op = "LOAD" /\ ~MemInRange(PreAddress))
          => last.error = "AddressError"
    /\ (MaskHit /\ PreInstr.op \notin ALU_KEYS) => last.error = "KeyError"

\* A LOAD from a negative address has failed under flag M, in run's loop.
C18_Witness ==
    /\ ExecuteFailed
    /\ PreInstr.op = "LOAD"
    /\ PreAddress < 0
    /\ last.pre.condition = CondFlag.M
    /\ last.mode = "running"
    /\ PC = PreAddr + 1

\* A STORE to an address outside the memory has failed.
C18_WitnessStore ==
    /\ ExecuteFailed
    /\ PreInstr.op = "STORE"
    /\ PC = PreAddr + 1

(***************************************************************************)
(* C19                                                                     *)
(***************************************************************************)
\* The cells of memory the last operation changed.
ChangedCells == {a \in Address : memory[a] # last.pre.memory[a]}

\* The last step executed a STORE to completion.
StoreStep == MaskHit /\ PreInstr.op = "STORE" /\ Completed

\* C19: only a STORE executed under a satisfied condition changes memory; it
\* changes at most one cell and no register but the program counter; every
\* other operation (a skipped instruction, ADD, SUB, MUL, DIV, LOAD, HALT, a
\* failed step, run's initialisation and return) leaves memory as it was.
C19_MemoryFrame ==
    /\ DOMAIN memory = Address
    /\ ChangedCells # {} => StoreStep
    /\ StoreStep =>
          /\ Cardinality(ChangedCells) <= 1
          /\ LowRegistersKept
          /\ PC = PreAddr + 1
    /\ (last.call = "step" /\ Completed /\ ~StoreStep) => memory = last.pre.memory
    /\ last.call = "run" => memory = last.pre.memory

\* A STORE has changed exactly one cell of memory.
C19_Witness ==
    /\ StoreStep
    /\ Cardinality(ChangedCells) = 1
    /\ PreInstr.reg_target = 1
    /\ RegGet(registers, 1) = RegGet(last.pre.registers, 1)

(***************************************************************************)
(* C20                                                                     *)
(***************************************************************************)
\* The last operation was the first step of a run's loop.
FirstStepOfRun ==
    last.call = "step" /\ last.mode = "running" /\ last.run.step_count = 1

\* The flag a newly constructed CPU holds, line 82.
FreshCondition == CondFlag.ALWAYS

\* The fetched instruction would be executed by a newly constructed CPU.
ExecutesWhenFresh == Fetched /\ CondSatisfied(PreInstr, FreshCondition)

\* C20: run resets halted and the program counter only: the condition flag,
\* registers 0-14 and memory are as they were before the call, so the first
\* instruction of a run is tested against the flag left by what ran before,
\* and is skipped when its mask misses that flag, also when a newly
\* constructed CPU would execute it.
C20_RunKeepsFlag ==
    /\ last.call = "run" =>
          /\ condition = last.pre.condition
          /\ LowRegistersKept
          /\ memory = last.pre.memory
          /\ ~halted
          /\ PC = last.arg
    /\ FirstStepOfRun =>
          /\ PreAddr = last.run.from_addr
          /\ ~last.pre.halted
    /\ (FirstStepOfRun /\ MaskMiss) =>
          /\ Completed
          /\ PC = PreAddr + 1
          /\ LowRegistersKept
          /\ condition = last.pre.condition
          /\ memory = last.pre.memory
          /\ ~halted

\* A run's first instruction, which a newly constructed CPU would execute, has
\* been skipped under the flag M that an earlier instruction left.
C20_Witness ==
    /\ FirstStepOfRun
    /\ last.pre.condition = CondFlag.M
    /\ MaskMiss
    /\ ExecutesWhenFresh
    /\ PreInstr.op = "ADD"
    /\ PC = PreAddr + 1
    /\ condition = CondFlag.M

====
